---- MODULE Spec2Model ----
(***************************************************************************)
(* A model of app.py, the stock time-series dashboard script.  One run of  *)
(* the script is a straight line of steps: the load loop over              *)
(* company_list, the empty-dataset stop, date normalisation, the sidebar   *)
(* widgets, the filtered subset, the moving averages, the charts and the   *)
(* closing "data loading notes".  A DataFrame is a record                  *)
(*   [index |-> sequence of row labels, data |-> [column -> series]].     *)
(* Strings are TLA+ strings; a file name is kept as a sequence of tokens   *)
(* so that Path.stem and str.split can be computed.                        *)
(***************************************************************************)
EXTENDS Integers, Sequences, FiniteSets, TLC

VARIABLES
    files,             \* the file system: content found for company_list[k]
    pc,                \* position of the script
    i,                 \* position of the load loop in company_list
    all_data,          \* combined DataFrame
    problems,          \* list of diagnostics
    banner,            \* text given to st.error ("" when none)
    written,           \* lines given to st.write inside an expander
    selected_company, selected_metric, start_d, end_d, ma_1, ma_2,
    dfc,               \* filtered subset
    read,              \* columns of dfc the charts and tables read
    plotted            \* y-columns drawn on the main chart

vars == <<files, pc, i, all_data, problems, banner, written,
          selected_company, selected_metric, start_d, end_d, ma_1, ma_2,
          dfc, read, plotted>>

(***************************************************************************)
(* Bounds of the model.                                                    *)
(***************************************************************************)
FileRows == 1          \* rows of a populated input file
MaxRows == 3           \* rows of a combined dataset drawn directly
MaxDay == 2            \* calendar days are 1..MaxDay
RollRows == 5          \* rows of a filtered view drawn directly
MaxVal == 2            \* quote values of a filtered view drawn directly
MaShortCap == 5        \* cap on the "Short MA" input (the widget allows 120)
MaLongCap == 5         \* cap on the "Long MA" input (the widget allows 250)

(***************************************************************************)
(* Program constants.                                                      *)
(***************************************************************************)
company_list ==
    << <<"AAPL", "_", "data", ".", "csv">>,
       <<"AMZN", "_", "data", ".", "csv">>,
       <<"GOOG", "_", "data", ".", "csv">>,
       <<"MSFT", "_", "data", ".", "csv">> >>

needed == {"date", "open", "high", "low", "close", "volume", "Name"}
metrics == <<"close", "open", "high", "low", "volume">>
show_cols == <<"open", "high", "low", "close", "volume">>
MaShortMin == 2
MaShortMax == 120
MaLongMin == 5
MaLongMax == 250
NoDataMsg == "No data loaded. Please check file paths and formats."

Min(a, b) == IF a < b THEN a ELSE b
Range(s) == {s[k] : k \in DOMAIN s}

(***************************************************************************)
(* Strings and paths.                                                      *)
(***************************************************************************)
RECURSIVE Str(_)
\* the string spelled by a sequence of tokens
Str(toks) == IF toks = <<>> THEN "" ELSE Head(toks) \o Str(Tail(toks))

RECURSIVE Join(_, _)
\* sep.join(items)
Join(items, sep) ==
    IF items = <<>> THEN ""
    ELSE IF Len(items) = 1 THEN items[1]
    ELSE items[1] \o sep \o Join(Tail(items), sep)

\* Path(file).name: the final path component (the names hold no directory)
PathName(toks) == toks

\* Path(file).stem: the name without its last suffix
PathStem(toks) ==
    LET dots == {k \in 2..Len(toks) : toks[k] = "."}
    IN IF dots = {} \/ toks[Len(toks)] = "." THEN toks
       ELSE SubSeq(toks, 1, (CHOOSE k \in dots : \A m \in dots : m <= k) - 1)

\* s.split('_'): the pieces of s between underscores
RECURSIVE SplitUnderscore(_)
SplitUnderscore(toks) ==
    LET us == {k \in 1..Len(toks) : toks[k] = "_"}
    IN IF us = {} THEN <<toks>>
       ELSE LET k == CHOOSE m \in us : \A n \in us : m <= n
            IN <<SubSeq(toks, 1, k - 1)>>
                   \o SplitUnderscore(SubSeq(toks, k + 1, Len(toks)))

WholeStem(toks) == Str(PathStem(toks))

\* p.stem.split('_')[0]
InferName(toks) == Str(SplitUnderscore(PathStem(toks))[1])

\* code point of the first character of a column name: Python compares
\* strings by code point, and the column names differ in their first letter
CodePoint ==
    [c \in needed |->
        CASE c = "Name" -> 78
          [] c = "close" -> 99
          [] c = "date" -> 100
          [] c = "high" -> 104
          [] c = "low" -> 108
          [] c = "open" -> 111
          [] c = "volume" -> 118]

RECURSIVE SortedDesc(_)
SortedDesc(S) ==
    IF S = {} THEN <<>>
    ELSE LET m == CHOOSE x \in S : \A y \in S : CodePoint[x] >= CodePoint[y]
         IN <<m>> \o SortedDesc(S \ {m})

RECURSIVE sorted(_)
\* sorted(S) for a set of column names
sorted(S) ==
    IF S = {} THEN <<>>
    ELSE LET m == CHOOSE x \in S : \A y \in S : CodePoint[x] <= CodePoint[y]
         IN <<m>> \o sorted(S \ {m})

(***************************************************************************)
(* DataFrames.                                                             *)
(***************************************************************************)
\* pd.DataFrame()
EmptyFrame == [index |-> <<>>, data |-> [c \in {} |-> <<>>]]
Columns(df) == DOMAIN df.data
NRows(df) == Len(df.index)
\* DataFrame.empty: some axis has length 0
IsEmpty(df) == NRows(df) = 0 \/ Columns(df) = {}
NaN == "NaN"

\* df[name] = series  (a new column, or a replaced one)
SetColumn(df, name, series) ==
    [index |-> df.index,
     data |-> [c \in Columns(df) \cup {name} |->
                  IF c = name THEN series ELSE df.data[c]]]

\* df[name] = scalar
SetScalar(df, name, value) ==
    SetColumn(df, name, [k \in 1..NRows(df) |-> value])

\* the rows at the given positions, in the given order, labels kept
Take(df, pos) ==
    [index |-> [k \in 1..Len(pos) |-> df.index[pos[k]]],
     data |-> [c \in Columns(df) |-> [k \in 1..Len(pos) |-> df.data[c][pos[k]]]]]

ConcatReplace(a, b) == b

\* pd.concat([a, b], ignore_index=True)
Concat(a, b) ==
    LET n == NRows(a) + NRows(b)
        col(df, c) == IF c \in Columns(df) THEN df.data[c]
                      ELSE [k \in 1..NRows(df) |-> NaN]
    IN [index |-> [k \in 1..n |-> k - 1],
        data |-> [c \in Columns(a) \cup Columns(b) |-> col(a, c) \o col(b, c)]]

(***************************************************************************)
(* Input files.  A date cell is text in some format; "bad" is text that    *)
(* is no date.  A quote of value v has open v, high v+1, low v-1, close v  *)
(* and volume 10v.                                                         *)
(***************************************************************************)
DateCell(fmt, day) == [fmt |-> fmt, day |-> day]

Quote(name, date, v) ==
    [Name |-> name, date |-> date, open |-> v, high |-> v + 1,
     low |-> v - 1, close |-> v, volume |-> 10 * v]

\* the frame read_csv yields for the given rows, restricted to cols
FrameOf(rows, cols) ==
    [index |-> [k \in 1..Len(rows) |-> k - 1],
     data |-> [c \in cols |-> [k \in 1..Len(rows) |-> rows[k][c]]]]

Missing == [kind |-> "missing", frame |-> EmptyFrame, err |-> ""]
Garbled == [kind |-> "garbled", frame |-> EmptyFrame,
            err |-> "No columns to parse from file"]
Table(n, fmt, label, dropped) ==
    [kind |-> "table",
     frame |-> FrameOf([k \in 1..n |->
                           Quote(label, DateCell(fmt, Min(k, MaxDay)), k)],
                       needed \ dropped),
     err |-> ""]

\* the contents a file of company_list may have
Contents ==
    { Missing, Garbled,
      Table(1, "iso", "", {"volume", "Name"}),
      Table(1, "iso", "XOM", {"open", "close"}),
      Table(0, "iso", "", {"Name"}),
      Table(FileRows, "iso", "", {"Name"}),
      Table(1, "us", "XOM", {}),
      Table(1, "bad", "", {"Name"}) }

(***************************************************************************)
(* The load loop (lines 27-49).                                            *)
(***************************************************************************)
Exists(k) == files[k].kind # "missing"

\* columns of needed that the frame lacks
MissingCols(df) == needed \ Columns(df)

\* the frame after the Name inference of lines 39-40
WithName(df, toks) ==
    IF "Name" \notin Columns(df) THEN SetScalar(df, "Name", InferName(toks))
    ELSE df

LoadFile ==
    /\ pc = "load"
    /\ i <= Len(company_list)
    /\ LET file == company_list[i]
           df == WithName(files[i].frame, file)
           missing == MissingCols(df)
       IN IF ~Exists(i)
          THEN /\ problems' = Append(problems, "Missing file: " \o Str(file))
               /\ UNCHANGED all_data
          ELSE IF files[i].kind = "garbled"
          THEN /\ problems' = Append(problems,
                       "Error reading " \o Str(file) \o ": " \o files[i].err)
               /\ UNCHANGED all_data
          ELSE IF missing # {}
          THEN /\ problems' = Append(problems,
                       Str(PathName(file)) \o " missing columns: "
                           \o Join(sorted(missing), ", "))
               /\ UNCHANGED all_data
          ELSE /\ all_data' = Concat(all_data, df)
               /\ UNCHANGED problems
    /\ i' = i + 1
    /\ UNCHANGED <<files, pc, banner, written, selected_company,
                   selected_metric, start_d, end_d, ma_1, ma_2, dfc, read, plotted>>

\* the lines "- " + msg written for the diagnostics
Bulleted(msgs) == [k \in 1..Len(msgs) |-> "- " \o msgs[k]]

\* lines 51-57: after the loop, stop when nothing was loaded
StopIfEmpty ==
    /\ pc = "load"
    /\ i > Len(company_list)
    /\ IF IsEmpty(all_data)
       THEN /\ banner' = NoDataMsg
            /\ written' = IF problems # <<>> THEN Bulleted(problems) ELSE written
            /\ pc' = "stopped"
       ELSE /\ pc' = "types"
            /\ UNCHANGED <<banner, written>>
    /\ UNCHANGED <<files, i, all_data, problems, selected_company,
                   selected_metric, start_d, end_d, ma_1, ma_2, dfc, read, plotted>>

(***************************************************************************)
(* Date normalisation (line 60).  pd.to_datetime raises on text that is no *)
(* date.  On a column that mixes formats the outcome depends on the pandas *)
(* build: it either parses each cell or raises on the first cell that does *)
(* not match the format inferred from the first one.                       *)
(***************************************************************************)
Formats(col) == {col[k].fmt : k \in DOMAIN col}

\* pd.to_datetime(col) when it does not raise
to_datetime(col) == [k \in DOMAIN col |-> col[k].day]

TypesOk ==
    /\ pc = "types"
    /\ "bad" \notin Formats(all_data.data["date"])
    /\ all_data' = SetColumn(all_data, "date", to_datetime(all_data.data["date"]))
    /\ pc' = "sidebar"
    /\ UNCHANGED <<files, i, problems, banner, written, selected_company,
                   selected_metric, start_d, end_d, ma_1, ma_2, dfc, read,
                   plotted>>

\* the exception leaves the script: the run ends at line 60
TypesRaise ==
    /\ pc = "types"
    /\ \/ "bad" \in Formats(all_data.data["date"])
       \/ Cardinality(Formats(all_data.data["date"])) > 1
    /\ pc' = "crashed"
    /\ UNCHANGED <<files, i, all_data, problems, banner, written,
                   selected_company, selected_metric, start_d, end_d, ma_1,
                   ma_2, dfc, read, plotted>>

(***************************************************************************)
(* Sidebar widgets (lines 63-81).                                          *)
(***************************************************************************)
\* all_data['Name'].unique(); its sorted order only orders the select box
companies == Range(all_data.data["Name"])
min_d == CHOOSE d \in Range(all_data.data["date"]) :
             \A e \in Range(all_data.data["date"]) : d <= e
max_d == CHOOSE d \in Range(all_data.data["date"]) :
             \A e \in Range(all_data.data["date"]) : d >= e

Sidebar ==
    /\ pc = "sidebar"
    /\ selected_company' \in companies
    /\ selected_metric' \in Range(metrics)
    /\ \E s \in min_d..max_d : \E e \in s..max_d :
           start_d' = s /\ end_d' = e
    /\ ma_1' \in MaShortMin..Min(MaShortMax, MaShortCap)
    /\ ma_2' \in MaLongMin..Min(MaLongMax, MaLongCap)
    /\ pc' = "filter"
    /\ UNCHANGED <<files, i, all_data, problems, banner, written, dfc, read,
                   plotted>>

(***************************************************************************)
(* Filtered subset (lines 84-85).                                          *)
(***************************************************************************)
RECURSIVE Ascending(_)
\* the members of a set of positions, smallest first
Ascending(S) ==
    IF S = {} THEN <<>>
    ELSE LET m == CHOOSE x \in S : \A y \in S : x <= y
         IN <<m>> \o Ascending(S \ {m})

\* all_data.query("Name == @selected_company").copy()
QueryName(df, company) ==
    Take(df, Ascending({k \in 1..NRows(df) : df.data["Name"][k] = company}))

InRangeExclusive(d, s, e) == s < d /\ d < e

\* (date >= start) & (date <= end)
InRange(d, s, e) == d >= s /\ d <= e

\* df[(df['date'] >= s) & (df['date'] <= e)]
MaskDates(df, s, e) ==
    Take(df, Ascending({k \in 1..NRows(df) : InRange(df.data["date"][k], s, e)}))

\* the row orders sort_values(col) may return: its default kind is
\* 'quicksort', which is not stable, so rows with equal keys may come out
\* in any order
SortOrders(df, col) ==
    {p \in Permutations(1..NRows(df)) :
        \A a, b \in 1..NRows(df) : a < b => df.data[col][p[a]] <= df.data[col][p[b]]}

Filter ==
    /\ pc = "filter"
    /\ LET q == QueryName(all_data, selected_company)
           m == MaskDates(q, start_d, end_d)
       IN \E p \in SortOrders(m, "date") : dfc' = Take(m, p)
    /\ pc' = "metrics"
    /\ UNCHANGED <<files, i, all_data, problems, banner, written,
                   selected_company, selected_metric, start_d, end_d, ma_1,
                   ma_2, read, plotted>>

(***************************************************************************)
(* Moving averages (lines 88-90).  A mean is kept as the exact fraction    *)
(* num/den; NA is the missing value.                                       *)
(***************************************************************************)
NA == [na |-> TRUE, num |-> 0, den |-> 1]

RECURSIVE WindowSum(_, _, _)
\* the sum the rolling aggregation holds after row k: each row is added as
\* it enters the window and taken out as it leaves
WindowSum(x, w, k) ==
    IF k = 0 THEN 0
    ELSE WindowSum(x, w, k - 1) + x[k] - (IF k > w THEN x[k - w] ELSE 0)

RECURSIVE PrefixSum(_, _)
PrefixSum(x, k) == IF k = 0 THEN 0 ELSE PrefixSum(x, k - 1) + x[k]

RollingExpanding(x, w) ==
    [k \in 1..Len(x) |->
        IF k >= w THEN [na |-> FALSE, num |-> PrefixSum(x, k), den |-> k]
        ELSE NA]

\* x.rolling(w).mean(): min_periods defaults to the window length
Rolling(x, w) ==
    [k \in 1..Len(x) |->
        IF Min(k, w) >= w
        THEN [na |-> FALSE, num |-> WindowSum(x, w, k), den |-> Min(k, w)]
        ELSE NA]

\* f'MA_{w}'
MaName(w) == "MA_" \o ToString(w)

MovingAveragesInPlace ==
    /\ pc = "metrics"
    /\ all_data' = SetColumn(all_data, MaName(ma_1),
                       Rolling(all_data.data["close"], ma_1))
    /\ pc' = "render"
    /\ UNCHANGED <<files, i, problems, banner, written, selected_company,
                   selected_metric, start_d, end_d, ma_1, ma_2, dfc, read,
                   plotted>>

MovingAverages ==
    /\ pc = "metrics"
    /\ dfc' = IF selected_metric # "volume"
              THEN LET d1 == SetColumn(dfc, MaName(ma_1),
                                 Rolling(dfc.data[selected_metric], ma_1))
                   IN SetColumn(d1, MaName(ma_2),
                          Rolling(d1.data[selected_metric], ma_2))
              ELSE dfc
    /\ pc' = "render"
    /\ UNCHANGED <<files, i, all_data, problems, banner, written,
                   selected_company, selected_metric, start_d, end_d, ma_1,
                   ma_2, read, plotted>>

(***************************************************************************)
(* Charts, summary and correlations (lines 93-153).  The model keeps which *)
(* columns of dfc are read and which series are drawn; a column that dfc   *)
(* lacks raises KeyError.  describe() and corr() return new tables.        *)
(***************************************************************************)
\* series.notna().any()
NotNaAny(series) == \E k \in DOMAIN series : ~series[k].na

OverlayAlways(metric, a, b) == <<MaName(a), MaName(b)>>

\* the MA columns the overlay of lines 105-109 reads
Overlay(metric, a, b) ==
    IF metric # "volume" THEN <<MaName(a), MaName(b)>> ELSE <<>>

Render ==
    /\ pc = "render"
    /\ LET overlay == Overlay(selected_metric, ma_1, ma_2)
           cols == {"date", selected_metric, "volume"}
                       \cup Range(show_cols) \cup Range(overlay)
       IN IF cols \subseteq Columns(dfc)
          THEN /\ read' = cols
               /\ plotted' = <<selected_metric>>
                      \o SelectSeq(overlay, LAMBDA c : NotNaAny(dfc.data[c]))
               /\ pc' = "notes"
          ELSE /\ read' = cols
               /\ pc' = "crashed"
               /\ UNCHANGED plotted
    /\ UNCHANGED <<files, i, all_data, problems, banner, written,
                   selected_company, selected_metric, start_d, end_d, ma_1,
                   ma_2, dfc>>

\* lines 157-160
Notes ==
    /\ pc = "notes"
    /\ written' = IF problems # <<>> THEN Bulleted(problems) ELSE written
    /\ pc' = "done"
    /\ UNCHANGED <<files, i, all_data, problems, banner, selected_company,
                   selected_metric, start_d, end_d, ma_1, ma_2, dfc, read,
                   plotted>>

(***************************************************************************)
(* The run of the script, from the files on disk.                          *)
(***************************************************************************)
NoWidgets ==
    /\ selected_company = ""
    /\ selected_metric = ""
    /\ start_d = 0
    /\ end_d = 0
    /\ ma_1 = 0
    /\ ma_2 = 0

Init ==
    /\ files \in [1..Len(company_list) -> Contents]
    /\ pc = "load"
    /\ i = 1
    /\ all_data = EmptyFrame
    /\ problems = <<>>
    /\ banner = ""
    /\ written = <<>>
    /\ NoWidgets
    /\ dfc = EmptyFrame
    /\ read = {}
    /\ plotted = <<>>

Next ==
    \/ LoadFile
    \/ StopIfEmpty
    \/ TypesOk
    \/ TypesRaise
    \/ Sidebar
    \/ Filter
    \/ MovingAverages
    \/ Render
    \/ Notes

Spec == Init /\ [][Next]_vars

(***************************************************************************)
(* The run from the sidebar on, over combined datasets of up to MaxRows    *)
(* rows.  The state is the one the load loop and the normalisation leave   *)
(* when the first file holds the rows, with its own Name column, and the   *)
(* other files are absent.                                                 *)
(***************************************************************************)
\* the state at the sidebar after loading the given rows from the first file
LoadedFrom(rows) ==
    /\ files = [k \in 1..Len(company_list) |->
                   IF k = 1
                   THEN [kind |-> "table", frame |-> FrameOf(rows, needed),
                         err |-> ""]
                   ELSE Missing]
    /\ i = Len(company_list) + 1
    /\ all_data = LET df == Concat(EmptyFrame, FrameOf(rows, needed))
                  IN SetColumn(df, "date", to_datetime(df.data["date"]))
    /\ problems = [k \in 1..(Len(company_list) - 1) |->
                      "Missing file: " \o Str(company_list[k + 1])]
    /\ banner = ""
    /\ written = <<>>
    /\ read = {}
    /\ plotted = <<>>

\* row k carries the quote value k, so that rows differ in their cells
ViewRows ==
    UNION {{[k \in 1..n |-> Quote(f[k][1], DateCell("iso", f[k][2]), k)] :
               f \in [1..n -> {"AAPL", "MSFT"} \X (1..MaxDay)]} :
           n \in 1..MaxRows}

InitView ==
    /\ \E rows \in ViewRows : LoadedFrom(rows)
    /\ pc = "sidebar"
    /\ NoWidgets
    /\ dfc = EmptyFrame

NextView == Sidebar \/ Filter

SpecView == InitView /\ [][NextView]_vars

(***************************************************************************)
(* The moving averages over filtered views of up to RollRows rows with     *)
(* values up to MaxVal, and over the view 1,2,3,4,5: one symbol, one row a *)
(* day, the whole date range selected.                                     *)
(***************************************************************************)
\* the worked example of the rolling mean
ExampleSeries == <<1, 2, 3, 4, 5>>

RollSeries == {ExampleSeries} \cup UNION {[1..n -> 1..MaxVal] : n \in 1..RollRows}

InitRoll ==
    /\ \E x \in RollSeries :
          /\ LoadedFrom([k \in 1..Len(x) |->
                            Quote("AAPL", DateCell("iso", k), x[k])])
          /\ start_d = 1
          /\ end_d = Len(x)
    /\ pc = "metrics"
    /\ selected_company = "AAPL"
    /\ selected_metric \in Range(metrics)
    /\ ma_1 \in MaShortMin..Min(MaShortMax, MaShortCap)
    /\ ma_2 \in MaLongMin..Min(MaLongMax, MaLongCap)
    /\ dfc = all_data

NextRoll == MovingAverages

SpecRoll == InitRoll /\ [][NextRoll]_vars

(***************************************************************************)
(* Vocabulary of the properties.                                           *)
(***************************************************************************)
NFiles == Len(company_list)
Required == {"date", "open", "high", "low", "close", "volume"}
Alphabetical == <<"close", "date", "high", "low", "open", "volume">>
FileNames == <<"AAPL_data.csv", "AMZN_data.csv", "GOOG_data.csv", "MSFT_data.csv">>
Symbols == <<"AAPL", "AMZN", "GOOG", "MSFT">>

Parses(k) == files[k].kind = "table"
WellFormed(k) == Parses(k) /\ Required \subseteq Columns(files[k].frame)
IllFormed(k) == ~WellFormed(k)
Populated(k) == NRows(files[k].frame) > 0
LoopDone == pc # "load" \/ i > NFiles
AtLoop == pc = "load" /\ i <= NFiles
LoadOutcome ==
    /\ ~IsEmpty(all_data)
    /\ Len(problems) = Cardinality({k \in 1..NFiles : IllFormed(k)})

\* C1 as stated: when at least one source is well-formed, after the load
\* loop the combined dataset is non-empty and there are as many diagnostics
\* as ill-formed sources.
C1_AnyWellFormed ==
    (LoopDone /\ \E k \in 1..NFiles : WellFormed(k)) => LoadOutcome

\* C1 as amended: when at least one source is well-formed and holds at
\* least one row, after the load loop the combined dataset is non-empty and
\* there are as many diagnostics as ill-formed sources.
C1_PopulatedWellFormed ==
    (LoopDone /\ \E k \in 1..NFiles : WellFormed(k) /\ Populated(k))
        => LoadOutcome

C1_Witness ==
    /\ pc = "types"
    /\ \E k \in 1..NFiles : WellFormed(k) /\ Populated(k)
    /\ \E k \in 1..NFiles : WellFormed(k) /\ ~Populated(k)
    /\ Len(problems) = 2

\* C2: a source that parses but lacks required fields adds no row to the
\* combined dataset and appends exactly one diagnostic, "<name> missing
\* columns: " followed by the missing fields in alphabetical order.
C2_SchemaDiagnostic ==
    [][(AtLoop /\ Parses(i) /\ ~WellFormed(i)) =>
          /\ all_data' = all_data
          /\ problems' = Append(problems,
                 FileNames[i] \o " missing columns: "
                     \o Join(SelectSeq(Alphabetical,
                                 LAMBDA c : c \notin Columns(files[i].frame)),
                             ", "))]_vars

C2_Witness ==
    /\ LoopDone
    /\ "AAPL_data.csv missing columns: volume" \in Range(problems)
    /\ "AMZN_data.csv missing columns: close, open" \in Range(problems)
    /\ IsEmpty(all_data)

\* C3: a problem with one source never aborts the run: every source is
\* attempted, and the run ends before filtering and metrics only by the
\* "no data loaded" stop, taken when the combined dataset is empty after
\* all sources were attempted.
C3_OnlyEmptyStopsEarly ==
    /\ LoopDone => i = NFiles + 1
    /\ pc \in {"stopped", "crashed"} =>
          IsEmpty(all_data) /\ banner = NoDataMsg /\ pc = "stopped"

\* C4: when the run has ended and the load loop recorded diagnostics, all
\* of them have been shown.
C4_DiagnosticsShown ==
    (pc \in {"stopped", "crashed", "done"} /\ problems # <<>>)
        => written = Bulleted(problems)

\* C5: the filtered view holds exactly the rows of the combined dataset
\* whose symbol is the chosen one and whose date lies in [start, end], both
\* bounds included, each row once and unchanged, in ascending date order;
\* when no row matches the view is empty.
C5_FilterExact ==
    pc = "metrics" =>
        LET match == {k \in 1..NRows(all_data) :
                         /\ all_data.data["Name"][k] = selected_company
                         /\ start_d <= all_data.data["date"][k]
                         /\ all_data.data["date"][k] <= end_d}
        IN /\ Columns(dfc) = Columns(all_data)
           /\ NRows(dfc) = Cardinality(match)
           /\ Range(dfc.index) = {k - 1 : k \in match}
           /\ \A j \in 1..NRows(dfc) : \A c \in Columns(dfc) :
                  dfc.data[c][j] = all_data.data[c][dfc.index[j] + 1]
           /\ \A a, b \in 1..NRows(dfc) :
                  a < b => dfc.data["date"][a] <= dfc.data["date"][b]

C5_Witness ==
    /\ pc = "metrics"
    /\ NRows(all_data) = 3
    /\ dfc.index = <<2, 0>>
    /\ all_data.data["Name"][2] = selected_company
    /\ start_d = end_d

\* C6: the rolling-mean series of a view of n rows for window w has n
\* positions; position k (counted from 1) holds the mean of the field over
\* positions k-w+1..k when k >= w and is missing otherwise, so the
\* max(0, n-w+1) defined positions are the trailing ones; values 1,2,3,4,5
\* with w = 3 give NA, NA, 2, 3, 4.
RECURSIVE SumOver(_, _, _)
SumOver(x, a, b) == IF a > b THEN 0 ELSE x[a] + SumOver(x, a + 1, b)

IsRollingMean(series, x, w) ==
    /\ Len(series) = Len(x)
    /\ \A k \in 1..Len(x) :
          IF k >= w
          THEN /\ ~series[k].na
               /\ series[k].num = SumOver(x, k - w + 1, k)
               /\ series[k].den = w
          ELSE series[k] = NA
    /\ Cardinality({k \in 1..Len(x) : ~series[k].na})
          = (IF Len(x) - w + 1 > 0 THEN Len(x) - w + 1 ELSE 0)

C6_RollingMean ==
    (pc = "render" /\ selected_metric # "volume") =>
        /\ \A w \in {ma_1, ma_2} :
              IsRollingMean(dfc.data[MaName(w)], dfc.data[selected_metric], w)
        /\ (dfc.data[selected_metric] = <<1, 2, 3, 4, 5>> /\ ma_1 = 3) =>
              LET m == dfc.data["MA_3"]
              IN /\ m[1] = NA /\ m[2] = NA
                 /\ \A k \in 3..5 : ~m[k].na /\ m[k].num = (k - 1) * m[k].den

C6_Witness ==
    /\ pc = "render"
    /\ selected_metric = "close"
    /\ dfc.data["close"] = <<1, 2, 3, 4, 5>>
    /\ ma_1 = 3
    /\ ma_2 = 5

\* C7: the date sort of the filter is stable: two rows of the filtered view
\* with the same date stand in the order they have in the combined dataset.
C7_StableSort ==
    pc = "metrics" =>
        \A a, b \in 1..NRows(dfc) :
            (a < b /\ dfc.data["date"][a] = dfc.data["date"][b])
                => dfc.index[a] < dfc.index[b]

\* the columns of the filtered view that the combined dataset does not have
MaColumns == Columns(dfc) \ Columns(all_data)
Computed == pc \in {"render", "notes", "done"}
VolumeCase ==
    (pc \in {"render", "notes", "done", "crashed"} /\ selected_metric = "volume")
        => MaColumns = {} /\ read \cap {MaName(ma_1), MaName(ma_2)} = {}

\* C8 as stated: for a price field the filtered view carries two
\* rolling-mean series, one for the short and one for the long window; for
\* volume it carries none and no later step reads one.
C8_TwoSeries ==
    /\ (Computed /\ selected_metric # "volume") =>
          /\ Cardinality(MaColumns) = 2
          /\ MaColumns = {MaName(ma_1), MaName(ma_2)}
    /\ VolumeCase

\* C8 as amended: for a price field the filtered view carries the
\* rolling-mean series MA_<short> and MA_<long>, each the rolling mean of
\* the field for its window: two series when the lengths differ, one shared
\* series when they are equal; for volume it carries none and no later step
\* reads one.
C8_SeriesPerWindow ==
    /\ (Computed /\ selected_metric # "volume") =>
          /\ MaColumns = {MaName(ma_1), MaName(ma_2)}
          /\ \A w \in {ma_1, ma_2} :
                IsRollingMean(dfc.data[MaName(w)], dfc.data[selected_metric], w)
          /\ Cardinality(MaColumns) = (IF ma_1 = ma_2 THEN 1 ELSE 2)
    /\ VolumeCase

C8_Witness ==
    /\ pc = "done"
    /\ selected_metric = "high"
    /\ ma_1 = 2
    /\ ma_2 = 5
    /\ MaColumns = {"MA_2", "MA_5"}
    /\ plotted = <<"high", "MA_2">>

\* C9: a source with the six required fields and no symbol-label field is
\* admitted without a diagnostic and each of its rows is labelled with the
\* part of the file's base name before the first underscore; a source with
\* its own symbol-label field is admitted with its labels unchanged.
C9_SymbolLabel ==
    [][(AtLoop /\ WellFormed(i)) =>
          LET src == files[i].frame
              old == NRows(all_data)
          IN /\ problems' = problems
             /\ NRows(all_data') = old + NRows(src)
             /\ \A k \in 1..old : \A c \in Columns(all_data) :
                    all_data'.data[c][k] = all_data.data[c][k]
             /\ \A k \in 1..NRows(src) :
                    /\ \A c \in Columns(src) :
                           all_data'.data[c][old + k] = src.data[c][k]
                    /\ all_data'.data["Name"][old + k] =
                           (IF "Name" \in Columns(src) THEN src.data["Name"][k]
                            ELSE Symbols[i])]_vars

C9_Witness ==
    /\ LoopDone
    /\ NRows(all_data) = 2
    /\ all_data.data["Name"] = <<"AAPL", "XOM">>
    /\ problems # <<>>

\* C10: once the combined dataset is built and its dates are normalised, no
\* later step changes it.
C10_CombinedFrozen ==
    [][(pc \in {"sidebar", "filter", "metrics", "render", "notes"})
          => all_data' = all_data]_vars

C10_Witness ==
    /\ pc = "done"
    /\ MaColumns # {}
    /\ NRows(dfc) > 0
    /\ NRows(dfc) < NRows(all_data)
    /\ dfc.index # SubSeq(all_data.index, 1, NRows(dfc))

====
